---- MODULE Spec2Model ----
(***************************************************************************)
(* Model of the speech I/O subsystem of GPTrivia:                          *)
(*   src/tts_manager.py  TextToSpeechManager (provider selection, Bark     *)
(*                       streaming / non-streaming synthesis pipeline)     *)
(*   src/stt_manager.py  SpeechToTextManager (provider selection,          *)
(*                       push-to-talk capture, get_next)                   *)
(*                                                                         *)
(* SpecCfg  : construction of the two managers from a config and an        *)
(*            environment (ai_trivia.py builds TTS first, then STT).       *)
(* Spec     : successive speak() calls on a constructed TTS manager, with  *)
(*            the consumer threads, the playback device and provider       *)
(*            faults.                                                      *)
(* FairSpec : Spec with the fairness of the Python thread scheduler.       *)
(* SpecSplit: one _smart_split call, one loop iteration per step.          *)
(* SpecStt  : one get_next() call: the two keyboard listeners of           *)
(*            _get_push_to_talk, the recording and the recognition.        *)
(* SpecIO   : the speak() calls of Spec or the get_next() of SpecStt.      *)
(* SpecHist : the message history of AiTrivia (src/ai_trivia.py) over the  *)
(*            loop of start().                                             *)
(***************************************************************************)
EXTENDS Integers, Sequences, FiniteSets, TLC

\* ---------------------------------------------------------------- bounds
MaxSegs == 3        \* most segments _smart_split returns for one text
MaxPreload == 2     \* largest config["bark"]["stream_preload"]
MaxCalls == 1       \* speak() calls made on one manager
MaxText == 4        \* longest text given to _smart_split
MaxLimit == 3       \* largest max_len given to _smart_split
MaxKeys == 3        \* key events during one get_next()
MaxSets == 2        \* largest config["openai"]["history_max_sets"]
MaxRounds == 4      \* iterations of the loop of AiTrivia.start

VARIABLES
    config,         \* the loaded config: [tts: ..., stt: ...]
    environ,        \* import flags and credential variables of the process
    proc,           \* position of AiTrivia.__init__ / process state
    tts,            \* the TextToSpeechManager object
    stt,            \* the SpeechToTextManager object
    pc,             \* position of the main thread inside speak()
    call,           \* number of the current (or last) speak() call, 0 = none yet
    contents,       \* _speak_bark: the list `contents` (segments still to synthesize)
    audios,         \* _speak_bark, non-streaming: the list `audios`
    nsegs,          \* per call: number of segments _smart_split returned
    audio_queue,    \* per call: the Queue `audio_queue`
    gen_done,       \* per call: the Event `gen_done`
    cycle,          \* per call: position of the consumer thread `cycle`
    audio,          \* per call: keep_playing's local `audio`
    generated,      \* per call: segments bark.generate_audio returned audio for
    played,         \* per call: audio buffers handed to sounddevice.play, in order
    fault,          \* per call: [synth |-> segment whose synthesis raised or 0,
                    \*            play |-> TRUE once a playback call raised]
    result,         \* per call: "none" while running, else "true" / "false"
    playing,        \* the output device: the buffer being played, or NoAudio
    overlap,        \* TRUE once sounddevice.play was entered while a buffer played
    it,             \* index of the main thread's running for-loop
    sp,             \* one _smart_split call: its arguments, locals and result
    ptt,            \* one get_next() call: the capture machine, keyboard and files
    hist            \* AiTrivia: the message history and the position in start()

cfgvars == <<config, environ, proc, tts, stt, sp, ptt, hist>>
runvars == <<pc, call, contents, audios, nsegs, audio_queue, gen_done, cycle,
             audio, generated, played, fault, result, playing, overlap, it>>
vars == <<config, environ, proc, tts, stt, pc, call, contents, audios, nsegs,
          audio_queue, gen_done, cycle, audio, generated, played, fault,
          result, playing, overlap, it, sp, ptt, hist>>

\* ------------------------------------------------------- provider registry
TtsKeys == {"eleven", "azure", "bark"}
SttKeys == {"azure", "openai"}

\* A TTS config: which backends are enabled, and the Bark streaming knobs.
TtsConfigs ==
    [enabled : [TtsKeys -> BOOLEAN], stream : BOOLEAN, stream_preload : 0..MaxPreload]

SttConfigs == [enabled : [SttKeys -> BOOLEAN]]

\* Import flags (_ELEVEN_LOAD, _AZURE_LOAD, _BARK_LOAD) and os.getenv(...) is not None.
Environs ==
    [ELEVEN_LOAD : BOOLEAN, AZURE_LOAD : BOOLEAN, BARK_LOAD : BOOLEAN,
     ELEVEN_API_KEY : BOOLEAN, SPEECH_KEY : BOOLEAN, SPEECH_REGION : BOOLEAN]

\* sum([config[key]["enabled"] for key in config.keys()])
EnabledCount(cfg) == Cardinality({k \in DOMAIN cfg.enabled : cfg.enabled[k]})

TtsConflictOff(cfg) == EnabledCount(cfg) > 2

\* tts_manager.py:31
TtsConflict(cfg) == EnabledCount(cfg) > 1

\* stt_manager.py:27
SttConflict(cfg) == EnabledCount(cfg) > 1

\* The object before __init__ has assigned anything.
NewTts(cfg) ==
    [config |-> cfg, exited |-> FALSE, assigned |-> {},
     use_eleven |-> FALSE, use_azure |-> FALSE, use_bark |-> FALSE,
     azure_created |-> FALSE, bark_preloaded |-> FALSE,
     warnings |-> {}, errors |-> {}]

NewStt(cfg) ==
    [config |-> cfg, exited |-> FALSE, assigned |-> {},
     use_azure |-> FALSE, use_openai |-> FALSE, azure_created |-> FALSE,
     warnings |-> {}, errors |-> {}]

ElevenKeyIgnored(m, env) == FALSE

\* tts_manager.py:37  the ElevenLabs credential check
ElevenKeyMissing(m, env) == m.use_eleven /\ ~env.ELEVEN_API_KEY

\* tts_manager.py:35-41
TtsEleven(m, env) ==
    LET m1 == [m EXCEPT !.use_eleven = env.ELEVEN_LOAD /\ m.config.enabled["eleven"],
                        !.assigned = @ \cup {"use_eleven"}]
    IN  IF ElevenKeyMissing(m1, env)
        THEN [m1 EXCEPT !.errors = @ \cup {"ELEVEN_API_KEY"}, !.exited = TRUE]
        ELSE IF m.config.enabled["eleven"] /\ ~env.ELEVEN_LOAD
             THEN [m1 EXCEPT !.warnings = @ \cup {"eleven"}]
             ELSE m1

\* tts_manager.py:43-57
TtsAzure(m, env) ==
    LET m1 == [m EXCEPT !.use_azure = env.AZURE_LOAD /\ m.config.enabled["azure"],
                        !.assigned = @ \cup {"use_azure"}]
        m2 == IF m.config.enabled["azure"] /\ ~env.AZURE_LOAD
              THEN [m1 EXCEPT !.warnings = @ \cup {"azure"}]
              ELSE m1
    IN  IF m2.use_azure THEN [m2 EXCEPT !.azure_created = TRUE] ELSE m2

\* tts_manager.py:59-65
TtsBark(m, env) ==
    LET m1 == [m EXCEPT !.use_bark = env.BARK_LOAD /\ m.config.enabled["bark"],
                        !.assigned = @ \cup {"use_bark"}]
        m2 == IF m.config.enabled["bark"] /\ ~env.BARK_LOAD
              THEN [m1 EXCEPT !.warnings = @ \cup {"bark"}]
              ELSE m1
    IN  IF m2.use_bark THEN [m2 EXCEPT !.bark_preloaded = TRUE] ELSE m2

\* TextToSpeechManager.__init__; exit(1) ends the constructor (and the process).
TtsInit(cfg, env) ==
    LET m0 == NewTts(cfg) IN
    IF TtsConflict(cfg)
    THEN [m0 EXCEPT !.errors = @ \cup {"multiple"}, !.exited = TRUE]
    ELSE LET m1 == TtsEleven(m0, env) IN
         IF m1.exited THEN m1
         ELSE TtsBark(TtsAzure(m1, env), env)

\* stt_manager.py:33  the Azure credential check
SttKeyMissing(m, env) == m.use_azure /\ (~env.SPEECH_KEY \/ ~env.SPEECH_REGION)

\* stt_manager.py:31-47
SttAzure(m, env) ==
    LET m1 == [m EXCEPT !.use_azure = env.AZURE_LOAD /\ m.config.enabled["azure"],
                        !.assigned = @ \cup {"use_azure"}]
    IN  IF SttKeyMissing(m1, env)
        THEN [m1 EXCEPT !.errors = @ \cup {"SPEECH_KEY"}, !.exited = TRUE]
        ELSE LET m2 == IF m.config.enabled["azure"] /\ ~env.AZURE_LOAD
                       THEN [m1 EXCEPT !.warnings = @ \cup {"azure"}]
                       ELSE m1
             IN  IF m2.use_azure THEN [m2 EXCEPT !.azure_created = TRUE] ELSE m2

\* stt_manager.py:49-50
SttOpenai(m) ==
    [m EXCEPT !.use_openai = m.config.enabled["openai"],
              !.assigned = @ \cup {"use_openai"}]

\* SpeechToTextManager.__init__
SttInit(cfg, env) ==
    LET m0 == NewStt(cfg) IN
    IF SttConflict(cfg)
    THEN [m0 EXCEPT !.errors = @ \cup {"multiple"}, !.exited = TRUE]
    ELSE LET m1 == SttAzure(m0, env) IN
         IF m1.exited THEN m1 ELSE SttOpenai(m1)

\* stt_manager.py:172-173
using_stt(m) == m.use_azure \/ m.use_openai

\* ------------------------------------------------------------ speak() state
Calls == 1..MaxCalls

\* The idle output device (no buffer is being played).
NoAudio == <<0, 0>>

\* bark.generate_audio(text, ...): the audio buffer of segment s of call c.
generate_audio(c, s) == <<c, s>>

Min(a, b) == IF a <= b THEN a ELSE b

\* The state before the first speak() call.
RunInit ==
    /\ pc = "idle" /\ call = 0 /\ contents = <<>> /\ audios = <<>> /\ it = 0
    /\ nsegs = [c \in Calls |-> 0]
    /\ audio_queue = [c \in Calls |-> <<>>]
    /\ gen_done = [c \in Calls |-> FALSE]
    /\ cycle = [c \in Calls |-> "unstarted"]
    /\ audio = [c \in Calls |-> NoAudio]
    /\ generated = [c \in Calls |-> <<>>]
    /\ played = [c \in Calls |-> <<>>]
    /\ fault = [c \in Calls |-> [synth |-> 0, play |-> FALSE]]
    /\ result = [c \in Calls |-> "none"]
    /\ playing = NoAudio /\ overlap = FALSE

\* --------------------------------------------------- _smart_split (SpecSplit)
\* Texts are sequences of characters; positions are 0-based as in the code
\* (content[i] is the element i + 1 of the sequence).
Chars == {"a", ".", "!", "\"", ":", ",", " ", "\r"}

\* tts_manager.py:68-72
tier1_splits == {".", "?", "!"}
tier2_splits == {":", ";", "--"}    \* "--" stands for the em dash U+2014
tier3_splits == {","}
tier4_splits == {" "}
tier1_additions == {"\"", "?", "!"}

\* What str.strip() removes: the space, and the whitespace that is no delimiter.
Whitespace == {" ", "\n", "\t", "\r"}

Texts == UNION {[1..n -> Chars] : n \in 0..MaxText}

MaxOf(S) == CHOOSE x \in S : \A y \in S : y <= x

\* content[lo:hi]
Slice(content, lo, hi) == SubSeq(content, lo + 1, Min(hi, Len(content)))

\* str.rfind(x, lo, hi): the highest position of x in content[lo:hi], or -1
rfind(content, x, lo, hi) ==
    LET at == {i \in lo..(Min(hi, Len(content)) - 1) : content[i + 1] = x}
    IN  IF at = {} THEN -1 ELSE MaxOf(at)

\* max([content.rfind(x, 0, max_len) for x in tier])
TierFind(content, tier, max_len) ==
    MaxOf({rfind(content, x, 0, max_len) : x \in tier})

ExtendNone(content, idx) == idx

\* tts_manager.py:80-81  while idx+1 < len(content) and content[idx+1] in
\* tier1_additions: idx += 1
Extend(content, idx) ==
    MaxOf({j \in idx..(Len(content) - 1) :
              \A k \in (idx + 1)..j : content[k + 1] \in tier1_additions})

\* The tier whose delimiter lines 76-85 take: 1..4, or 0 when none is found
SplitTier(content, max_len) ==
    IF TierFind(content, tier1_splits, max_len) # -1 THEN 1
    ELSE IF TierFind(content, tier2_splits, max_len) # -1 THEN 2
    ELSE IF TierFind(content, tier3_splits, max_len) # -1 THEN 3
    ELSE IF TierFind(content, tier4_splits, max_len) # -1 THEN 4
    ELSE 0

SplitIdxAnyTier(content, max_len) ==
    LET i == MaxOf({TierFind(content, t, max_len) :
                      t \in {tier1_splits, tier2_splits, tier3_splits, tier4_splits}})
    IN  IF i # -1 /\ content[i + 1] \in tier1_splits THEN Extend(content, i) ELSE i

\* tts_manager.py:76-85  the value of idx when line 86 tests it
SplitIdx(content, max_len) ==
    LET i1 == TierFind(content, tier1_splits, max_len)
        i2 == IF i1 = -1 THEN TierFind(content, tier2_splits, max_len)
                         ELSE Extend(content, i1)
        i3 == IF i2 = -1 THEN TierFind(content, tier3_splits, max_len) ELSE i2
        i4 == IF i3 = -1 THEN TierFind(content, tier4_splits, max_len) ELSE i3
    IN  i4

RECURSIVE lstrip(_)
lstrip(s) == IF s # <<>> /\ Head(s) \in Whitespace THEN lstrip(Tail(s)) ELSE s

RECURSIVE rstrip(_)
rstrip(s) ==
    IF s # <<>> /\ s[Len(s)] \in Whitespace THEN rstrip(SubSeq(s, 1, Len(s) - 1)) ELSE s

RECURSIVE StripQuotes(_)
StripQuotes(s) ==
    IF s # <<>> /\ Head(s) \in Whitespace \cup {"\""} THEN StripQuotes(Tail(s))
    ELSE rstrip(s)

\* str.strip()
strip(s) == lstrip(rstrip(s))

SuffixSkip(content, idx) == Slice(content, idx + 1, Len(content))

SuffixAll(content, idx) == content

\* content[idx:]
Suffix(content, idx) == Slice(content, idx, Len(content))

\* content[:idx]
Prefix(content, idx) == Slice(content, 0, idx)

TooLongOrEqual(content, max_len) == Len(content) >= max_len

\* tts_manager.py:75  while len(content) > max_len
TooLong(content, max_len) == Len(content) > max_len

\* _smart_split(content, max_len), lines 74-93
RECURSIVE SplitLoop(_, _, _)
SplitLoop(content, segments, max_len) ==
    IF TooLong(content, max_len) /\ SplitIdx(content, max_len) # -1
    THEN LET idx == SplitIdx(content, max_len) + 1
         IN  SplitLoop(Suffix(content, idx),
                       Append(segments, strip(Prefix(content, idx))), max_len)
    ELSE Append(segments, strip(content))

smart_split(content, max_len) == SplitLoop(content, <<>>, max_len)

\* No _smart_split call is under way.
NoSplit ==
    [pc |-> "none", text |-> <<>>, max_len |-> 0, content |-> <<>>,
     segments |-> <<>>, pieces |-> <<>>, tiers |-> <<>>, broke |-> FALSE,
     last |-> [content |-> <<>>, idx |-> -1]]

\* No get_next() call is under way.
NoCapture ==
    [pc |-> "none",          \* main thread: call, join1, start, rec, join2,
                             \*   returned, interrupted
     outofline |-> FALSE,    \* outofline_start
     listener |-> "none",    \* the running keyboard.Listener: press, release
     keys |-> 0,             \* key events so far
     down |-> FALSE,         \* shift is held
     trigger |-> FALSE,      \* on_press saw the shift press
     ctrlc |-> FALSE,        \* on_press saw Ctrl+C
     start_called |-> FALSE, end_called |-> FALSE,
     end_first |-> FALSE,    \* end_func ran before start_func
     released_rec |-> FALSE, \* shift was released between start_func and end_func
     flag |-> FALSE,         \* threading.Event of _get_rec_as_file_name
     stream |-> "closed",    \* the audio input: closed, open
     tempfile |-> "none",    \* none, exists, removed
     exc |-> FALSE,          \* an exception is stored in the stopped listener
     raised |-> FALSE,       \* a provider call raised during this get_next()
     outcome |-> "none",     \* what recognition reported
     result |-> "none"]      \* none, null, text, None_string, escaped

\* No AiTrivia object has been built.
NoHistory ==
    [pc |-> "none",           \* start(): category, question, answer, response,
                             \*   stopped; crashed when __init__ raised
     use_history |-> FALSE,  \* config["openai"]["use_history"]
     bypass |-> FALSE,       \* config["openai"]["bypass"]
     max_sets |-> 0,         \* config["openai"]["history_max_sets"]
     history |-> <<>>,       \* _message_history
     round |-> 0,            \* iteration of the loop of start()
     evicted |-> <<>>]       \* what the last _keep_history call popped

\* ------------------------------------------------------ construction (SpecCfg)
\* ai_trivia.py:27-28 builds the TTS manager, then the STT manager; exit(1) in
\* either constructor ends the process.
InitCfg ==
    /\ config \in [tts : TtsConfigs, stt : SttConfigs]
    /\ environ \in Environs
    /\ proc = "start"
    /\ tts = NewTts(config.tts)
    /\ stt = NewStt(config.stt)
    /\ RunInit
    /\ sp = NoSplit /\ ptt = NoCapture /\ hist = NoHistory

ConstructTts ==
    /\ proc = "start"
    /\ tts' = TtsInit(config.tts, environ)
    /\ proc' = IF tts'.exited THEN "exited" ELSE "tts_built"
    /\ UNCHANGED <<config, environ, stt, runvars, sp, ptt, hist>>

ConstructStt ==
    /\ proc = "tts_built"
    /\ stt' = SttInit(config.stt, environ)
    /\ proc' = IF stt'.exited THEN "exited" ELSE "stt_built"
    /\ UNCHANGED <<config, environ, tts, runvars, sp, ptt, hist>>

NextCfg == ConstructTts \/ ConstructStt

SpecCfg == InitCfg /\ [][NextCfg]_vars

\* --------------------------------------------------------- speak() (Spec)
\* A constructed TTS manager (any config and import flags the constructor
\* accepts), speech-to-text disabled, no speak() call made yet.
RunConfigs == {c \in [tts : TtsConfigs, stt : SttConfigs] :
                 \A k \in SttKeys : ~c.stt.enabled[k]}

\* Credentials set; the optional packages are all installed or all missing.
RunEnvirons == {e \in Environs :
                  /\ e.ELEVEN_API_KEY /\ e.SPEECH_KEY /\ e.SPEECH_REGION
                  /\ e.ELEVEN_LOAD = e.AZURE_LOAD /\ e.AZURE_LOAD = e.BARK_LOAD}

Init ==
    /\ config \in RunConfigs
    /\ environ \in RunEnvirons
    /\ tts = TtsInit(config.tts, environ)
    /\ ~tts.exited
    /\ stt = SttInit(config.stt, environ)
    /\ proc = "stt_built"
    /\ RunInit
    /\ sp = NoSplit /\ ptt = NoCapture /\ hist = NoHistory

FallthroughTrue == "true"

\* tts_manager.py:176  `return False` after the provider dispatch and the except
Fallthrough == "false"

\* speak() returns r: the locals of the call are gone.
Returns(c, r) ==
    /\ result' = [result EXCEPT ![c] = r]
    /\ pc' = "idle" /\ contents' = <<>> /\ audios' = <<>> /\ it' = 0

PutFront(q, a) == <<a>> \o q

\* Queue.put on the FIFO queue.Queue() (no maxsize: put never blocks)
Put(q, a) == Append(q, a)

PreloadAll(m, n) == n

PreloadNone(m, n) == 0

\* tts_manager.py:148  range(min(stream_preload, len(contents)))
PreloadCount(m, n) ==
    IF m.config.stream_preload <= 0 THEN 0 ELSE Min(m.config.stream_preload, n)

KeepPlayingUntilDone(c) == ~gen_done[c]

\* tts_manager.py:130  the loop condition of keep_playing
KeepPlaying(c) == ~gen_done[c] \/ audio_queue[c] # <<>>

\* speak(content): the provider dispatch of lines 167-176, and for Bark
\* lines 140-147 (contents = the n segments of _smart_split, the queue, the
\* event and the unstarted thread).
Speak(n) ==
    /\ pc = "idle" /\ call < MaxCalls
    /\ call' = call + 1
    /\ LET c == call + 1 IN
       IF tts.use_eleven THEN
            /\ pc' = "eleven"
            /\ UNCHANGED <<contents, nsegs, result, audios, it>>
       ELSE IF tts.use_bark THEN
            /\ contents' = [i \in 1..n |-> i]
            /\ nsegs' = [nsegs EXCEPT ![c] = n]
            /\ pc' = IF tts.config.stream THEN "preload" ELSE "generate"
            /\ it' = IF tts.config.stream THEN 0 ELSE 1
            /\ UNCHANGED <<result, audios>>
       ELSE IF tts.use_azure THEN
            /\ pc' = "azure"
            /\ UNCHANGED <<contents, nsegs, result, audios, it>>
       ELSE /\ Returns(c, Fallthrough)
            /\ UNCHANGED nsegs
    /\ UNCHANGED <<cfgvars, audio_queue, gen_done, cycle, audio, generated,
                   played, fault, playing, overlap>>

\* _speak_eleven: generate, then the blocking elevenlabs.play; either may raise.
SpeakEleven(outcome) ==
    /\ pc = "eleven"
    /\ generated' = [generated EXCEPT ![call] =
                        IF outcome = "generate_raises" THEN <<>> ELSE <<1>>]
    /\ played' = [played EXCEPT ![call] =
                        IF outcome = "generate_raises" THEN <<>>
                        ELSE <<generate_audio(call, 1)>>]
    /\ fault' = [fault EXCEPT ![call] =
                        [synth |-> IF outcome = "generate_raises" THEN 1 ELSE 0,
                         play |-> outcome = "play_raises"]]
    /\ Returns(call, IF outcome = "ok" THEN "true" ELSE Fallthrough)
    /\ UNCHANGED <<cfgvars, call, nsegs, audio_queue, gen_done, cycle, audio,
                   playing, overlap>>

\* _speak_azure: the SDK synthesizes and plays; the result's reason decides.
SpeakAzure(outcome) ==
    /\ pc = "azure"
    /\ fault' = [fault EXCEPT ![call] =
                        [synth |-> IF outcome = "SynthesizingAudioCompleted" THEN 0 ELSE 1,
                         play |-> FALSE]]
    /\ Returns(call, IF outcome = "SynthesizingAudioCompleted" THEN "true"
                     ELSE IF outcome = "raises" THEN Fallthrough ELSE "false")
    /\ UNCHANGED <<cfgvars, call, nsegs, audio_queue, gen_done, cycle, audio,
                   generated, played, playing, overlap>>

\* ---- streaming, main thread (producer)
\* tts_manager.py:148-149, one iteration: generate_audio(contents.pop(0)), put
PreloadOk ==
    /\ pc = "preload" /\ it < PreloadCount(tts, nsegs[call])
    /\ audio_queue' = [audio_queue EXCEPT ![call] =
                          Put(@, generate_audio(call, Head(contents)))]
    /\ generated' = [generated EXCEPT ![call] = Append(@, Head(contents))]
    /\ contents' = Tail(contents)
    /\ it' = it + 1
    /\ UNCHANGED <<cfgvars, pc, call, audios, nsegs, gen_done, cycle, audio,
                   played, fault, result, playing, overlap>>

\* generate_audio raises in the preload loop: contents.pop(0) has run, the
\* exception leaves _speak_bark and speak() returns at line 176.
PreloadRaise ==
    /\ pc = "preload" /\ it < PreloadCount(tts, nsegs[call])
    /\ fault' = [fault EXCEPT ![call].synth = Head(contents)]
    /\ Returns(call, Fallthrough)
    /\ UNCHANGED <<cfgvars, call, nsegs, audio_queue, gen_done, cycle, audio,
                   generated, played, playing, overlap>>

\* tts_manager.py:150  cycle.start()
StartCycle ==
    /\ pc = "preload" /\ it = PreloadCount(tts, nsegs[call])
    /\ cycle' = [cycle EXCEPT ![call] = "loop"]
    /\ pc' = "produce" /\ it' = 1
    /\ UNCHANGED <<cfgvars, call, contents, audios, nsegs, audio_queue, gen_done,
                   audio, generated, played, fault, result, playing, overlap>>

\* tts_manager.py:151-152, one iteration
ProduceOk ==
    /\ pc = "produce" /\ it <= Len(contents)
    /\ audio_queue' = [audio_queue EXCEPT ![call] =
                          Put(@, generate_audio(call, contents[it]))]
    /\ generated' = [generated EXCEPT ![call] = Append(@, contents[it])]
    /\ it' = it + 1
    /\ UNCHANGED <<cfgvars, pc, call, contents, audios, nsegs, gen_done, cycle,
                   audio, played, fault, result, playing, overlap>>

ProduceRaiseSkip ==
    /\ pc = "produce" /\ it <= Len(contents)
    /\ fault' = [fault EXCEPT ![call].synth = contents[it]]
    /\ it' = it + 1
    /\ UNCHANGED <<cfgvars, pc, call, contents, audios, nsegs, audio_queue,
                   gen_done, cycle, audio, generated, played, result, playing,
                   overlap>>

\* generate_audio raises at line 152: the exception leaves _speak_bark before
\* gen_done.set() and cycle.join(); speak() returns at line 176.
ProduceRaise ==
    /\ pc = "produce" /\ it <= Len(contents)
    /\ fault' = [fault EXCEPT ![call].synth = contents[it]]
    /\ Returns(call, Fallthrough)
    /\ UNCHANGED <<cfgvars, call, nsegs, audio_queue, gen_done, cycle, audio,
                   generated, played, playing, overlap>>

\* tts_manager.py:153  gen_done.set()
SetDone ==
    /\ pc = "produce" /\ it > Len(contents)
    /\ gen_done' = [gen_done EXCEPT ![call] = TRUE]
    /\ pc' = "join"
    /\ UNCHANGED <<cfgvars, call, contents, audios, nsegs, audio_queue, cycle,
                   audio, generated, played, fault, result, playing, overlap, it>>

\* tts_manager.py:154  cycle.join(): returns once the thread has ended
Join ==
    /\ pc = "join" /\ cycle[call] \in {"finished", "dead"}
    /\ pc' = "final_wait"
    /\ UNCHANGED <<cfgvars, call, contents, audios, nsegs, audio_queue, gen_done,
                   cycle, audio, generated, played, fault, result, playing,
                   overlap, it>>

\* tts_manager.py:155,164  sounddevice.wait(), return True
FinalWait ==
    /\ pc = "final_wait" /\ playing = NoAudio
    /\ Returns(call, "true")
    /\ UNCHANGED <<cfgvars, call, nsegs, audio_queue, gen_done, cycle, audio,
                   generated, played, fault, playing, overlap>>

\* ---- streaming, consumer thread keep_playing of call c
\* (its `except KeyboardInterrupt` never runs: CPython delivers the signal to
\* the main thread only.)
\* tts_manager.py:130  the loop test; the thread ends when it is false
CycleTest(c) ==
    /\ cycle[c] = "loop"
    /\ cycle' = [cycle EXCEPT ![c] = IF KeepPlaying(c) THEN "get" ELSE "finished"]
    /\ UNCHANGED <<cfgvars, pc, call, contents, audios, nsegs, audio_queue,
                   gen_done, audio, generated, played, fault, result, playing,
                   overlap, it>>

\* tts_manager.py:132,135-136  q.get(timeout=1): the head of the queue, or Empty
\* after the timeout, which is passed over
CycleGet(c) ==
    /\ cycle[c] = "get"
    /\ IF audio_queue[c] # <<>>
       THEN /\ audio' = [audio EXCEPT ![c] = Head(audio_queue[c])]
            /\ audio_queue' = [audio_queue EXCEPT ![c] = Tail(@)]
            /\ cycle' = [cycle EXCEPT ![c] = "wait"]
       ELSE /\ cycle' = [cycle EXCEPT ![c] = "loop"]
            /\ UNCHANGED <<audio, audio_queue>>
    /\ UNCHANGED <<cfgvars, pc, call, contents, audios, nsegs, gen_done,
                   generated, played, fault, result, playing, overlap, it>>

\* tts_manager.py:133  sounddevice.wait(): blocks until the device is idle
CycleWait(c) ==
    /\ cycle[c] = "wait" /\ playing = NoAudio
    /\ cycle' = [cycle EXCEPT ![c] = "play"]
    /\ UNCHANGED <<cfgvars, pc, call, contents, audios, nsegs, audio_queue,
                   gen_done, audio, generated, played, fault, result, playing,
                   overlap, it>>

\* tts_manager.py:134  sounddevice.play(audio, ...): starts playback and returns
CyclePlayOk(c) ==
    /\ cycle[c] = "play"
    /\ played' = [played EXCEPT ![c] = Append(@, audio[c])]
    /\ overlap' = (overlap \/ playing # NoAudio)
    /\ playing' = audio[c]
    /\ cycle' = [cycle EXCEPT ![c] = "loop"]
    /\ UNCHANGED <<cfgvars, pc, call, contents, audios, nsegs, audio_queue,
                   gen_done, audio, generated, fault, result, it>>

\* sounddevice.play raises (PortAudioError): neither except clause of
\* keep_playing matches, the exception ends the thread.
CyclePlayRaise(c) ==
    /\ cycle[c] = "play"
    /\ played' = [played EXCEPT ![c] = Append(@, audio[c])]
    /\ fault' = [fault EXCEPT ![c].play = TRUE]
    /\ cycle' = [cycle EXCEPT ![c] = "dead"]
    /\ UNCHANGED <<cfgvars, pc, call, contents, audios, nsegs, audio_queue,
                   gen_done, audio, generated, result, playing, overlap, it>>

\* ---- non-streaming, main thread
GenerateEager ==
    /\ pc = "generate" /\ it <= Len(contents)
    /\ audios' = Append(audios, generate_audio(call, contents[it]))
    /\ generated' = [generated EXCEPT ![call] = Append(@, contents[it])]
    /\ pc' = "play" /\ it' = 1
    /\ UNCHANGED <<cfgvars, call, contents, nsegs, audio_queue, gen_done, cycle,
                   audio, played, fault, result, playing, overlap>>

\* tts_manager.py:159-160, one iteration; after the last one the play loop starts
GenerateOk ==
    /\ pc = "generate" /\ it <= Len(contents)
    /\ audios' = Append(audios, generate_audio(call, contents[it]))
    /\ generated' = [generated EXCEPT ![call] = Append(@, contents[it])]
    /\ IF it = Len(contents) THEN pc' = "play" /\ it' = 1
                             ELSE pc' = pc /\ it' = it + 1
    /\ UNCHANGED <<cfgvars, call, contents, nsegs, audio_queue, gen_done, cycle,
                   audio, played, fault, result, playing, overlap>>

GenerateRaise ==
    /\ pc = "generate" /\ it <= Len(contents)
    /\ fault' = [fault EXCEPT ![call].synth = contents[it]]
    /\ Returns(call, Fallthrough)
    /\ UNCHANGED <<cfgvars, call, nsegs, audio_queue, gen_done, cycle, audio,
                   generated, played, playing, overlap>>

\* tts_manager.py:162  sounddevice.play(audio, ...)
PlayOk ==
    /\ pc = "play" /\ it <= Len(audios)
    /\ played' = [played EXCEPT ![call] = Append(@, audios[it])]
    /\ overlap' = (overlap \/ playing # NoAudio)
    /\ playing' = audios[it]
    /\ pc' = "wait"
    /\ UNCHANGED <<cfgvars, call, contents, audios, nsegs, audio_queue, gen_done,
                   cycle, audio, generated, fault, result, it>>

\* sounddevice.play raises in the main thread: speak() returns at line 176
PlayRaise ==
    /\ pc = "play" /\ it <= Len(audios)
    /\ played' = [played EXCEPT ![call] = Append(@, audios[it])]
    /\ fault' = [fault EXCEPT ![call].play = TRUE]
    /\ Returns(call, Fallthrough)
    /\ UNCHANGED <<cfgvars, call, nsegs, audio_queue, gen_done, cycle, audio,
                   generated, playing, overlap>>

\* tts_manager.py:163  sounddevice.wait(); after the last buffer, return True
Wait ==
    /\ pc = "wait" /\ playing = NoAudio
    /\ IF it = Len(audios)
       THEN Returns(call, "true")
       ELSE /\ pc' = "play" /\ it' = it + 1
            /\ UNCHANGED <<contents, audios, result>>
    /\ UNCHANGED <<cfgvars, call, nsegs, audio_queue, gen_done, cycle, audio,
                   generated, played, fault, playing, overlap>>

\* ---- the output device: the buffer being played comes to its end
Finish ==
    /\ playing # NoAudio
    /\ playing' = NoAudio
    /\ UNCHANGED <<cfgvars, pc, call, contents, audios, nsegs, audio_queue,
                   gen_done, cycle, audio, generated, played, fault, result,
                   overlap, it>>

MainNext ==
    \/ \E n \in 1..MaxSegs : Speak(n)
    \/ \E o \in {"ok", "generate_raises", "play_raises"} : SpeakEleven(o)
    \/ \E o \in {"SynthesizingAudioCompleted", "Canceled", "raises"} : SpeakAzure(o)
    \/ PreloadOk \/ PreloadRaise \/ StartCycle \/ ProduceOk \/ ProduceRaise
    \/ SetDone \/ Join \/ FinalWait
    \/ GenerateOk \/ GenerateRaise \/ PlayOk \/ PlayRaise \/ Wait

CycleNext(c) ==
    CycleTest(c) \/ CycleGet(c) \/ CycleWait(c) \/ CyclePlayOk(c) \/ CyclePlayRaise(c)

Next == MainNext \/ (\E c \in Calls : CycleNext(c)) \/ Finish

Spec == Init /\ [][Next]_vars

\* The Python scheduler runs every runnable thread, and a started playback ends.
FairSpec ==
    /\ Spec
    /\ WF_vars(MainNext)
    /\ \A c \in Calls : WF_vars(CycleNext(c))
    /\ WF_vars(Finish)


\* ------------------------------------------------- _smart_split (SpecSplit)
\* One call _smart_split(text, max_len) on a constructed manager, one loop
\* iteration per step.  pieces keeps content[:idx] as cut, before strip().
IdleManagers ==
    /\ config = CHOOSE c \in RunConfigs : c.tts.enabled["bark"]
    /\ environ = CHOOSE e \in RunEnvirons : e.BARK_LOAD
    /\ tts = TtsInit(config.tts, environ)
    /\ stt = SttInit(config.stt, environ)
    /\ proc = "stt_built"
    /\ RunInit

InitSplit ==
    /\ IdleManagers
    /\ ptt = NoCapture /\ hist = NoHistory
    /\ \E text \in Texts, max_len \in 1..MaxLimit :
         sp = [NoSplit EXCEPT !.pc = "loop", !.text = text,
                              !.max_len = max_len, !.content = text]

\* tts_manager.py:75-90  an iteration that finds a delimiter
SplitIter ==
    /\ sp.pc = "loop"
    /\ TooLong(sp.content, sp.max_len)
    /\ SplitIdx(sp.content, sp.max_len) # -1
    /\ LET idx == SplitIdx(sp.content, sp.max_len) + 1
       IN  sp' = [sp EXCEPT
                    !.segments = Append(@, strip(Prefix(sp.content, idx))),
                    !.pieces = Append(@, Prefix(sp.content, idx)),
                    !.tiers = Append(@, SplitTier(sp.content, sp.max_len)),
                    !.content = Suffix(sp.content, idx),
                    !.last = [content |-> sp.content, idx |-> idx]]
    /\ UNCHANGED <<config, environ, proc, tts, stt, ptt, hist, runvars>>

\* tts_manager.py:86-87, 92-93  no delimiter in the window: break, append, return
SplitBreak ==
    /\ sp.pc = "loop"
    /\ TooLong(sp.content, sp.max_len)
    /\ SplitIdx(sp.content, sp.max_len) = -1
    /\ sp' = [sp EXCEPT !.segments = Append(@, strip(sp.content)),
                        !.pieces = Append(@, sp.content),
                        !.broke = TRUE, !.pc = "done"]
    /\ UNCHANGED <<config, environ, proc, tts, stt, ptt, hist, runvars>>

\* tts_manager.py:75, 92-93  the remaining text fits: append, return
SplitEnd ==
    /\ sp.pc = "loop"
    /\ ~TooLong(sp.content, sp.max_len)
    /\ sp' = [sp EXCEPT !.segments = Append(@, strip(sp.content)),
                        !.pieces = Append(@, sp.content),
                        !.pc = "done"]
    /\ UNCHANGED <<config, environ, proc, tts, stt, ptt, hist, runvars>>

NextSplit == SplitIter \/ SplitBreak \/ SplitEnd

SpecSplit == InitSplit /\ [][NextSplit]_vars


\* ---------------------------------------------------- get_next() (SpecStt)
\* One get_next() call on a constructed STT manager.  The keyboard listener
\* runs its callback on its own thread, atomically with the key event; a key
\* event with no listener running (or one the running listener has no callback
\* for) changes nothing but the keyboard.
SttRunConfigs == {c \in [tts : TtsConfigs, stt : SttConfigs] :
                    /\ \A k \in TtsKeys : ~c.tts.enabled[k]
                    /\ ~c.tts.stream /\ c.tts.stream_preload = 0
                    /\ ~SttConflict(c.stt)}

InitStt ==
    /\ config \in SttRunConfigs
    /\ environ \in RunEnvirons
    /\ tts = TtsInit(config.tts, environ)
    /\ stt = SttInit(config.stt, environ)
    /\ proc = "stt_built"
    /\ RunInit
    /\ sp = NoSplit /\ hist = NoHistory
    /\ ptt = [NoCapture EXCEPT !.pc = "call"]

\* stt_manager.py:168-170  except Exception: warning; return None
Caught == "null"

\* get_next returns r
SttReturns(p, r) == [p EXCEPT !.pc = "returned", !.result = r, !.listener = "none"]

\* stt_manager.py:163-170 down to the first listener of _get_push_to_talk (73)
GetNext ==
    /\ ptt.pc = "call"
    /\ ptt' = IF stt.use_azure
              THEN [ptt EXCEPT !.pc = "join1", !.listener = "press"]
              ELSE IF stt.use_openai
              THEN [ptt EXCEPT !.pc = "join1", !.listener = "press",
                               !.outofline = TRUE]
              ELSE SttReturns(ptt, "null")
    /\ UNCHANGED <<config, environ, proc, tts, stt, sp, hist, runvars>>

\* stt_manager.py:55-60  on_press(Key.shift); ok: start_func() did not raise
on_press_shift(p, ok) ==
    LET q == [p EXCEPT !.trigger = TRUE, !.listener = "none"]
    IN  IF p.outofline THEN q
        ELSE IF ok THEN [q EXCEPT !.start_called = TRUE, !.stream = "open"]
        ELSE [q EXCEPT !.start_called = TRUE, !.exc = TRUE, !.raised = TRUE]

\* stt_manager.py:66-70  on_release(Key.shift); end_func is end_rec (flag.set())
\* or stop_continuous_recognition
on_release_shift(p, ok) ==
    LET q == [p EXCEPT !.listener = "none", !.end_called = TRUE,
                       !.end_first = @ \/ ~p.start_called]
    IN  IF p.outofline THEN [q EXCEPT !.flag = TRUE]
        ELSE IF ok THEN [q EXCEPT !.stream = "closed"]
        ELSE [q EXCEPT !.exc = TRUE, !.raised = TRUE]

\* The user presses shift.
PressShift ==
    /\ ptt.pc \in {"join1", "start", "rec", "join2"}
    /\ ptt.keys < MaxKeys /\ ~ptt.down
    /\ \E ok \in BOOLEAN :
         LET p == [ptt EXCEPT !.keys = @ + 1, !.down = TRUE]
         IN  ptt' = IF ptt.listener = "press" THEN on_press_shift(p, ok) ELSE p
    /\ UNCHANGED <<config, environ, proc, tts, stt, sp, hist, runvars>>

\* The user releases shift.
ReleaseShift ==
    /\ ptt.pc \in {"join1", "start", "rec", "join2"}
    /\ ptt.keys < MaxKeys /\ ptt.down
    /\ \E ok \in BOOLEAN :
         LET p == [ptt EXCEPT !.keys = @ + 1, !.down = FALSE,
                              !.released_rec = @ \/ (ptt.start_called /\ ~ptt.end_called)]
         IN  ptt' = IF ptt.listener = "release" THEN on_release_shift(p, ok) ELSE p
    /\ UNCHANGED <<config, environ, proc, tts, stt, sp, hist, runvars>>

\* stt_manager.py:61-63  Ctrl+C while the press listener runs.  sigint: the
\* terminal also raised SIGINT, and KeyboardInterrupt (no Exception) leaves
\* listener.join(), the with block and get_next.
PressCtrlC ==
    /\ ptt.pc = "join1" /\ ptt.listener = "press"
    /\ ptt.keys < MaxKeys
    /\ \E sigint \in BOOLEAN :
         ptt' = [ptt EXCEPT !.keys = @ + 1, !.ctrlc = TRUE, !.listener = "none",
                            !.pc = IF sigint THEN "interrupted" ELSE @]
    /\ UNCHANGED <<config, environ, proc, tts, stt, sp, hist, runvars>>

\* stt_manager.py:64, 71  any other key: the callback returns True
PressOther ==
    /\ ptt.pc \in {"join1", "join2"} /\ ptt.listener # "none"
    /\ ptt.keys < MaxKeys
    /\ ptt' = [ptt EXCEPT !.keys = @ + 1]
    /\ UNCHANGED <<config, environ, proc, tts, stt, sp, hist, runvars>>

\* stt_manager.py:73-75  the press listener has stopped: join() returns (or
\* re-raises what on_press raised) and the release listener is started
AfterPress ==
    /\ ptt.pc = "join1" /\ ptt.listener = "none"
    /\ ptt' = IF ptt.exc THEN SttReturns(ptt, Caught)
              ELSE [ptt EXCEPT !.listener = "release",
                               !.pc = IF ptt.outofline THEN "start" ELSE "join2"]
    /\ UNCHANGED <<config, environ, proc, tts, stt, sp, hist, runvars>>

\* stt_manager.py:76-77, 110-120  start_rec() on the main thread: mkstemp, the
\* sound file, the input stream (ok: it opened)
StartRec ==
    /\ ptt.pc = "start"
    /\ \E ok \in BOOLEAN :
         ptt' = IF ok
                THEN [ptt EXCEPT !.tempfile = "exists", !.start_called = TRUE,
                                 !.stream = "open", !.pc = "rec"]
                ELSE SttReturns([ptt EXCEPT !.tempfile = "exists",
                                            !.start_called = TRUE,
                                            !.raised = TRUE], Caught)
    /\ UNCHANGED <<config, environ, proc, tts, stt, sp, hist, runvars>>

\* stt_manager.py:119-121  the loop sees the flag: stream and file are closed
StopRec ==
    /\ ptt.pc = "rec" /\ ptt.flag
    /\ ptt' = [ptt EXCEPT !.stream = "closed", !.pc = "join2"]
    /\ UNCHANGED <<config, environ, proc, tts, stt, sp, hist, runvars>>

\* What the Azure recognizer handed to get_cb last (stt_manager.py:83-104).
AzureOutcomes == {"no_event", "speech", "empty", "no_match", "canceled"}

\* stt_manager.py:91-104  the value _get_azure returns
AzureResult(outcome) == IF outcome = "speech" THEN "text" ELSE "null"

\* client.audio.transcriptions.create (stt_manager.py:157)
OpenaiOutcomes == {"speech", "junk", "raise"}

\* stt_manager.py:131-152  _filter_openai_junk returns the string "None"
OpenaiResult(outcome) == IF outcome = "junk" THEN "None_string" ELSE "text"

\* stt_manager.py:78, 91-104, 129, 155-160  the release listener has stopped:
\* join() returns and the provider's recognition result is returned
AfterRelease ==
    /\ ptt.pc = "join2" /\ ptt.listener = "none"
    /\ IF ptt.exc THEN ptt' = SttReturns(ptt, Caught)
       ELSE IF ~ptt.outofline
       THEN \E o \in AzureOutcomes :
              /\ ~ptt.start_called => o = "no_event"
              /\ ptt' = SttReturns([ptt EXCEPT !.outcome = o], AzureResult(o))
       ELSE \E o \in OpenaiOutcomes :
              ptt' = IF o = "raise"
                     THEN SttReturns([ptt EXCEPT !.outcome = o, !.raised = TRUE],
                                     Caught)
                     ELSE SttReturns([ptt EXCEPT !.outcome = o,
                                                 !.tempfile = "removed"],
                                     OpenaiResult(o))
    /\ UNCHANGED <<config, environ, proc, tts, stt, sp, hist, runvars>>

NextStt ==
    \/ GetNext \/ PressShift \/ ReleaseShift \/ PressCtrlC \/ PressOther
    \/ AfterPress \/ StartRec \/ StopRec \/ AfterRelease

SpecStt == InitStt /\ [][NextStt]_vars

\* ------------------------------------------- speak() and get_next() (SpecIO)
\* The two provider-facing operations of the managers: a process that makes
\* speak() calls, or one whose STT manager serves a get_next().
InitIO == Init \/ InitStt

NextIO == Next \/ NextStt

SpecIO == InitIO /\ [][NextIO]_vars


\* ------------------------------------------------ message history (SpecHist)
\* One AiTrivia object: __init__ has put the system message into the history,
\* start() runs its loop.  A message content is tagged with what it is (its
\* kind and the loop iteration it belongs to); given is FALSE for the
\* assistant content "No response given".
Roles == {"system", "assistant", "user"}

Contents(kind, round) == [kind : {kind}, round : {round}, given : BOOLEAN]

\* ai_trivia.py:64-69  ChatCompletion<Role>MessageParam(role=role, content=content)
Message(role, content) == [role |-> role, content |-> content]

\* list.pop(1)
Pop1(l) == <<l[1]>> \o SubSeq(l, 3, Len(l))

\* n times pop(1), as far as the list has an entry at index 1
RECURSIVE Pops(_, _)
Pops(l, n) == IF n = 0 \/ Len(l) < 2 THEN l ELSE Pops(Pop1(l), n - 1)

FullStrict(n, max_sets) == n - 1 > 4 * max_sets

\* ai_trivia.py:75  len(self._message_history) - 1 >= 4 * max_sets
Full(n, max_sets) == n - 1 >= 4 * max_sets

\* ai_trivia.py:60-79  _keep_history(role, content); a pop(1) on a list without
\* an entry at index 1 raises IndexError
keep_history(h, role, content) ==
    IF ~h.use_history \/ role \notin Roles THEN [h EXCEPT !.evicted = <<>>]
    ELSE LET a == Append(h.history, Message(role, content))
         IN  IF ~Full(Len(a), h.max_sets)
             THEN [h EXCEPT !.history = a, !.evicted = <<>>]
             ELSE [h EXCEPT !.history = Pops(a, 4),
                            !.evicted = SubSeq(a, 2, Min(5, Len(a))),
                            !.pc = IF Len(a) < 5 THEN "crashed" ELSE @]

\* ai_trivia.py:55-58 and the entry of start()
InitHist ==
    /\ IdleManagers
    /\ sp = NoSplit /\ ptt = NoCapture
    /\ \E use_history \in BOOLEAN, bypass \in BOOLEAN, max_sets \in 0..MaxSets :
         hist = keep_history([NoHistory EXCEPT !.pc = "category", !.round = 1,
                                               !.use_history = use_history,
                                               !.bypass = bypass,
                                               !.max_sets = max_sets],
                             "system", [kind |-> "system", round |-> 0, given |-> TRUE])

\* The statement of the loop of start() that follows the one at position at.
NextPc(at) ==
    CASE at = "category" -> "question"
      [] at = "question" -> "answer"
      [] at = "answer" -> "response"
      [] at = "response" -> "category"

\* The call of start() has made at position h.pc returns.
Advance(h) ==
    IF h.pc = "crashed" THEN h
    ELSE [h EXCEPT !.pc = NextPc(@),
                   !.round = IF h.pc = "response" THEN @ + 1 ELSE @]

\* ai_trivia.py:106-116  _cycle_user_input (lines 125 and 132 of start)
CycleUserInput ==
    /\ hist.pc \in {"category", "answer"}
    /\ hist.round <= MaxRounds
    /\ hist' = Advance(keep_history(hist, "user",
                   [kind |-> hist.pc, round |-> hist.round, given |-> TRUE]))
    /\ UNCHANGED <<config, environ, proc, tts, stt, sp, ptt, runvars>>

\* ai_trivia.py:81-104  _cycle_ai_input (lines 128 and 135 of start): with
\* bypass it returns at line 86, before _keep_history
CycleAiInput ==
    /\ hist.pc \in {"question", "response"}
    /\ \E content \in Contents(hist.pc, hist.round) :
         IF hist.bypass
         THEN content.given /\ hist' = Advance(hist)
         ELSE hist' = Advance(keep_history(hist, "assistant", content))
    /\ UNCHANGED <<config, environ, proc, tts, stt, sp, ptt, runvars>>

\* ai_trivia.py:122  stop_flag is set when the loop condition is tested
StopGame ==
    /\ hist.pc = "category"
    /\ hist' = [hist EXCEPT !.pc = "stopped"]
    /\ UNCHANGED <<config, environ, proc, tts, stt, sp, ptt, runvars>>

NextHist == CycleUserInput \/ CycleAiInput \/ StopGame

SpecHist == InitHist /\ [][NextHist]_vars

\* ------------------------------------------------------------------ claims
Returned(c) == result[c] # "none"

Faulted(c) == fault[c].synth # 0 \/ fault[c].play

\* The Bark backend in streaming mode.
Stream == tts.use_bark /\ tts.config.stream

NoProvider == ~tts.use_eleven /\ ~tts.use_bark /\ ~tts.use_azure

\* The audio buffers of the segments of call c, in segment order.
Expected(c) == [i \in 1..nsegs[c] |-> generate_audio(c, i)]

IsPrefix(s, t) == Len(s) <= Len(t) /\ \A i \in 1..Len(s) : s[i] = t[i]

Range(s) == {s[i] : i \in 1..Len(s)}

\* C1: with the Bark backend, streaming or not, the buffers handed to playback
\* are always the buffers of the first segments in segment order (nothing is
\* reordered, duplicated or played before an earlier segment), and once
\* speak() has returned from a call in which no provider call raised they are
\* the buffers of all the segments.
C1_PlaybackOrder ==
    tts.use_bark =>
        \A c \in Calls :
            /\ IsPrefix(played[c], Expected(c))
            /\ (Returned(c) /\ ~Faulted(c) => played[c] = Expected(c))

\* A streaming call of the most segments, part of them enqueued after the
\* consumer started, has returned with every buffer played in order.
C1_Witness ==
    \E c \in Calls :
        /\ Stream /\ Returned(c) /\ ~Faulted(c)
        /\ nsegs[c] = MaxSegs /\ tts.config.stream_preload = 1
        /\ played[c] = Expected(c)

\* C2 as stated: in streaming mode the queue never holds more than
\* stream_preload buffers.
C2_QueueWithinPreload ==
    Stream => \A c \in Calls : Len(audio_queue[c]) <= tts.config.stream_preload

\* C2 amended: in streaming mode the queue holds at most stream_preload buffers
\* until the consumer thread is started, and never more than the number of
\* segments of the call (the queue itself is unbounded).
C2_QueueBound ==
    Stream =>
        \A c \in Calls :
            /\ cycle[c] = "unstarted" => Len(audio_queue[c]) <= tts.config.stream_preload
            /\ Len(audio_queue[c]) <= nsegs[c]

\* The producer has run ahead of a started consumer: the queue holds every
\* segment of the call, more than stream_preload.
C2_Witness ==
    \E c \in Calls :
        /\ Stream /\ cycle[c] # "unstarted"
        /\ Len(audio_queue[c]) > tts.config.stream_preload
        /\ Len(audio_queue[c]) = nsegs[c]

\* C3: whenever a speak() call has returned (no call is running), the consumer
\* thread it started has ended; so none runs when a later call starts.
C3_ConsumerJoined ==
    \A c \in Calls : Returned(c) => cycle[c] \in {"unstarted", "finished", "dead"}

\* C4 as stated: when the synthesis of segment i failed, speak() has, by the
\* time it returns, synthesized every later segment and handed it to playback.
C4_LaterSegmentsPlayed ==
    tts.use_bark =>
        \A c \in Calls :
            Returned(c) /\ fault[c].synth # 0 =>
                \A s \in (fault[c].synth + 1)..nsegs[c] :
                    /\ s \in Range(generated[c])
                    /\ generate_audio(c, s) \in Range(played[c])

\* C4 amended: when the synthesis of segment i fails, speak() returns false at
\* once, and neither segment i nor any later segment is ever synthesized or
\* handed to playback.
C4_SynthFailureEndsCall ==
    tts.use_bark =>
        \A c \in Calls :
            fault[c].synth # 0 =>
                /\ Returned(c) /\ result[c] = "false"
                /\ \A s \in fault[c].synth..nsegs[c] :
                    /\ s \notin Range(generated[c])
                    /\ generate_audio(c, s) \notin Range(played[c])

\* Streaming: the synthesis of the second of three segments failed after the
\* first one was played.
C4_Witness ==
    \E c \in Calls :
        /\ Stream /\ nsegs[c] = 3 /\ fault[c].synth = 2
        /\ played[c] = <<generate_audio(c, 1)>> /\ result[c] = "false"

\* C5: when a playback call failed during a Bark speak(), streaming or not,
\* speak() returns false.
C5_PlayFailureReturnsFalse ==
    tts.use_bark =>
        \A c \in Calls : Returned(c) /\ fault[c].play => result[c] = "false"

\* C6: in streaming mode, a call in which no synthesis and no playback call
\* raises eventually returns true, and when it has, all its segments were
\* synthesized and enqueued, its queue is empty and each of its buffers was
\* handed to playback exactly once, in order.
C6_StreamingCompletes ==
    /\ [](Stream =>
            \A c \in Calls :
                Returned(c) /\ result[c] = "true" /\ ~Faulted(c) =>
                    /\ generated[c] = [i \in 1..nsegs[c] |-> i]
                    /\ audio_queue[c] = <<>>
                    /\ played[c] = Expected(c))
    /\ \A c \in Calls :
            [](Stream /\ call = c => <>(Faulted(c) \/ result[c] = "true"))

\* A fault-free streaming call with nothing preloaded has returned true with
\* the queue drained.
C6_Witness ==
    \E c \in Calls :
        /\ Stream /\ tts.config.stream_preload = 0 /\ nsegs[c] = MaxSegs
        /\ result[c] = "true" /\ ~Faulted(c)
        /\ audio_queue[c] = <<>> /\ cycle[c] = "finished"

\* C7: in streaming mode no playback is started while a buffer is still being
\* played, and speak() has not returned while a buffer is being played.
C7_OnePlaybackAtATime ==
    Stream =>
        /\ ~overlap
        /\ \A c \in Calls : Returned(c) /\ pc = "idle" /\ call = c => playing = NoAudio

\* C9 as stated: with no usable TTS provider speak() returns true.
C9_SilentSuccess ==
    NoProvider => \A c \in Calls : Returned(c) => result[c] = "true"

\* C9 amended: with no usable TTS provider speak() performs no synthesis and
\* no playback and returns false.
C9_NoProviderReturnsFalse ==
    NoProvider =>
        /\ pc = "idle" /\ playing = NoAudio
        /\ \A c \in Calls :
            /\ generated[c] = <<>> /\ played[c] = <<>>
            /\ Returned(c) => result[c] = "false"

\* Bark is the single enabled provider, it could not be imported, and a
\* speak() call has returned.
C9_Witness ==
    /\ NoProvider /\ config.tts.enabled["bark"] /\ ~environ.BARK_LOAD
    /\ \E c \in Calls : Returned(c)

\* The TTS constructor has run (to its end or to exit(1)).
TtsBuilt == proc # "start"

\* The STT constructor has run (to its end or to exit(1)).
SttBuilt == proc = "stt_built" \/ (proc = "exited" /\ ~tts.exited)

\* C8: constructing a TTS or STT manager with more than one provider enabled
\* ends in exit(1) with no provider flag assigned and no provider
\* initialization (Azure client, Bark model preload) run.
C8_ConflictExitsFirst ==
    /\ TtsBuilt /\ EnabledCount(config.tts) > 1 =>
          /\ proc = "exited" /\ tts.exited /\ tts.errors = {"multiple"}
          /\ tts.assigned = {} /\ ~tts.azure_created /\ ~tts.bark_preloaded
          /\ ~tts.use_eleven /\ ~tts.use_azure /\ ~tts.use_bark
          /\ stt = NewStt(config.stt)
    /\ SttBuilt /\ EnabledCount(config.stt) > 1 =>
          /\ proc = "exited" /\ stt.exited /\ stt.errors = {"multiple"}
          /\ stt.assigned = {} /\ ~stt.azure_created
          /\ ~stt.use_azure /\ ~stt.use_openai

\* Azure and Bark are both enabled for TTS, both importable, and construction
\* has ended the process.
C8_Witness ==
    /\ proc = "exited"
    /\ config.tts.enabled["azure"] /\ config.tts.enabled["bark"]
    /\ environ.AZURE_LOAD /\ environ.BARK_LOAD

\* The single enabled TTS provider is ElevenLabs, importable, without its key.
ElevenNoKey ==
    /\ config.tts.enabled["eleven"] /\ EnabledCount(config.tts) = 1
    /\ environ.ELEVEN_LOAD /\ ~environ.ELEVEN_API_KEY

\* The single enabled STT provider is Azure, importable, without key or region.
AzureSttNoKey ==
    /\ config.stt.enabled["azure"] /\ EnabledCount(config.stt) = 1
    /\ environ.AZURE_LOAD /\ (~environ.SPEECH_KEY \/ ~environ.SPEECH_REGION)

\* C10 as stated: a loadable single enabled provider whose credential is
\* missing leaves construction complete, with a warning and the provider
\* unused; the process is not terminated.
C10_MissingCredentialDegrades ==
    /\ TtsBuilt /\ ElevenNoKey =>
          ~tts.exited /\ ~tts.use_eleven /\ tts.warnings # {}
    /\ SttBuilt /\ AzureSttNoKey =>
          ~stt.exited /\ ~stt.use_azure /\ stt.warnings # {}

\* C10 amended: when the single enabled provider is ElevenLabs (TTS) or Azure
\* (STT), is loadable and lacks its credential, construction logs an error and
\* ends the process with exit(1): no warning, no degraded manager.
C10_MissingCredentialExits ==
    /\ TtsBuilt /\ ElevenNoKey =>
          /\ proc = "exited" /\ tts.exited /\ tts.errors = {"ELEVEN_API_KEY"}
          /\ tts.warnings = {} /\ ~tts.azure_created /\ ~tts.bark_preloaded
    /\ SttBuilt /\ AzureSttNoKey =>
          /\ proc = "exited" /\ stt.exited /\ stt.errors = {"SPEECH_KEY"}
          /\ stt.warnings = {} /\ ~stt.azure_created

\* The TTS manager was built, and the STT constructor met Azure enabled alone
\* with SPEECH_REGION unset.
C10_Witness ==
    /\ SttBuilt /\ AzureSttNoKey /\ environ.SPEECH_KEY /\ stt.exited


\* ---- _smart_split
SplitDone == sp.pc = "done"

\* t is segs[1] .. segs[n] in order with only whitespace before, between and
\* after them.
RECURSIVE Rejoins(_, _)
Rejoins(t, segs) ==
    IF segs = <<>> THEN \A i \in 1..Len(t) : t[i] \in Whitespace
    ELSE LET u == lstrip(t)
             seg == Head(segs)
         IN  /\ IsPrefix(seg, u)
             /\ Rejoins(SubSeq(u, Len(seg) + 1, Len(u)), Tail(segs))

\* C11: the segments _smart_split(T, L) returns, joined in order, are T up to
\* whitespace at the segment boundaries: no other character is dropped,
\* duplicated or reordered.
C11_RejoinReproducesText == SplitDone => Rejoins(sp.text, sp.segments)

\* A finished call that cut the text at least once and trimmed whitespace away.
C11_Witness ==
    /\ SplitDone
    /\ Len(sp.segments) >= 2
    /\ \E i \in 1..Len(sp.segments) :
         sp.segments[i] # sp.pieces[i] /\ sp.segments[i] # <<>>

\* C12: every segment other than the last (each was cut at a delimiter found
\* in the window) has length at most L.
C12_SegmentsWithinLimit ==
    \A i \in 1..Len(sp.tiers) : Len(sp.segments[i]) <= sp.max_len

\* Positions of the window content[0:max_len] of the last iteration that hold a
\* delimiter of the given tier.
InWindow(tier) ==
    {i \in 0..(Min(sp.max_len, Len(sp.last.content)) - 1) :
        sp.last.content[i + 1] \in tier}

\* The cut of the last iteration is at the rightmost delimiter of the tier: p,
\* or for tier 1 p and the run of closing punctuation that follows it.
CutAt(tier, additions) ==
    LET p == MaxOf(InWindow(tier))
        cut == sp.last.idx - 1
    IN  /\ cut >= p
        /\ \A j \in (p + 1)..cut : sp.last.content[j + 1] \in additions

\* C13: an iteration cuts at the rightmost tier-1 delimiter of the window when
\* there is one, whatever lower-tier delimiters lie further right; tier k+1 is
\* used only when the window holds no delimiter of tiers 1..k.
C13_TierPreference ==
    sp.tiers # <<>> =>
        /\ InWindow(tier1_splits) # {} => CutAt(tier1_splits, tier1_additions)
        /\ InWindow(tier1_splits) = {} /\ InWindow(tier2_splits) # {}
             => CutAt(tier2_splits, {})
        /\ InWindow(tier1_splits \cup tier2_splits) = {} /\ InWindow(tier3_splits) # {}
             => CutAt(tier3_splits, {})
        /\ InWindow(tier1_splits \cup tier2_splits \cup tier3_splits) = {}
             => CutAt(tier4_splits, {})

\* A window with a tier-1 delimiter and a lower-tier delimiter to its right.
C13_Witness ==
    /\ sp.tiers # <<>>
    /\ \E i \in InWindow(tier1_splits) :
         \E j \in InWindow(tier2_splits \cup tier3_splits \cup tier4_splits) :
            i < j /\ sp.last.idx = i + 1

AfterTier1 == sp.tiers # <<>> /\ sp.tiers[Len(sp.tiers)] = 1

\* C14 (as claimed): the segment that follows a tier-1 split never begins with
\* a closing-punctuation character.
C14_NextSegmentNoClosing ==
    \A i \in 1..Len(sp.tiers) :
        sp.tiers[i] = 1 /\ i < Len(sp.segments) /\ sp.segments[i + 1] # <<>>
            => sp.segments[i + 1][1] \notin tier1_additions

\* C14 (amended): after a tier-1 split the text left over, as cut and before
\* it is trimmed, never begins with a closing-punctuation character: the run
\* of such characters right after the delimiter went to the earlier segment.
C14_ClosingRunKept ==
    AfterTier1 /\ sp.content # <<>> => sp.content[1] \notin tier1_additions

\* A tier-1 cut that carried a closing quote into the earlier segment.
C14_Witness ==
    /\ AfterTier1
    /\ LET piece == sp.pieces[Len(sp.tiers)]
       IN  Len(piece) >= 2 /\ piece[Len(piece)] = "\""
                           /\ piece[Len(piece) - 1] \in tier1_splits

\* C15: the oversized segment S emitted when no delimiter is in the window is
\* a fixed point: _smart_split(S, L) = [S].
C15_OversizedIdempotent ==
    SplitDone /\ sp.broke =>
        LET S == sp.segments[Len(sp.segments)]
        IN  smart_split(S, sp.max_len) = <<S>>

\* ---- push-to-talk and get_next()
SttReturned == ptt.pc = "returned"

\* C16: a release of shift in the Recording state (start_func has run,
\* end_func has not) ends the capture whatever the interleaving with the start
\* of the release listener: once _get_push_to_talk waits in the second join()
\* after such a release, end_func has been called.
C16_ReleaseEndsCapture ==
    ptt.released_rec /\ ptt.pc = "join2" => ptt.end_called

\* C17: end_func is never invoked in a cycle in which start_func has not yet
\* been invoked, for both values of outofline_start.
C17_StartBeforeEnd == ~ptt.end_first

\* C18: after Ctrl+C is seen while waiting for the trigger key, no recording
\* is started, the input device is not opened and no release listener waits.
C18_InterruptAbortsWait ==
    ptt.ctrlc => /\ ~ptt.start_called
                 /\ ptt.stream = "closed"
                 /\ ptt.listener # "release"

\* C19: no provider exception leaves speak() or get_next(): speak() returns
\* false and get_next() returns null after one, and a get_next() whose
\* recognition reported no speech, a cancellation or an error returns null.
C19_ProviderFailuresContained ==
    /\ ptt.result # "escaped"
    /\ SttReturned /\ ptt.raised => ptt.result = "null"
    /\ SttReturned /\ ptt.outcome \in {"no_event", "empty", "no_match",
                                       "canceled", "junk", "raise"}
         => ptt.result = "null"
    /\ \A c \in Calls :
         /\ fault[c].synth # 0 => Returned(c)
         /\ Returned(c) /\ fault[c].synth # 0 => result[c] = "false"

\* C20: when get_next() has returned on the file-based backend, the temporary
\* file of the capture is gone.
C20_TempFileDeleted ==
    SttReturned /\ ptt.outofline => ptt.tempfile # "exists"

\* ---- the Bark pipeline, non-streaming and preload
\* The Bark backend with config["bark"]["stream"] off.
NonStream == tts.use_bark /\ ~tts.config.stream

\* C21 (as claimed): in non-streaming mode at most one synthesized buffer is
\* held unplayed at any time.
C21_OneBufferUnplayed ==
    NonStream => \A c \in Calls : Len(generated[c]) - Len(played[c]) <= 1

\* C21 (amended): in non-streaming mode every segment of the call has been
\* synthesized, in order, before the first buffer is played; the buffers are
\* then played in segment order, and never while an earlier one still sounds.
C21_SynthesizeAllThenPlay ==
    NonStream =>
        /\ ~overlap
        /\ \A c \in Calls :
             /\ IsPrefix(played[c], Expected(c))
             /\ played[c] # <<>> => generated[c] = [i \in 1..nsegs[c] |-> i]

\* A non-streaming call of several segments that has played its first buffer
\* and holds the others.
C21_Witness ==
    /\ NonStream
    /\ \E c \in Calls :
         nsegs[c] >= 2 /\ Len(played[c]) = 1 /\ Len(generated[c]) = nsegs[c]

\* C22: when cycle.start() runs, the queue holds exactly the buffers of the
\* first min(stream_preload, segment count) segments, in order, nothing else
\* has been synthesized and nothing of the call has been played.
C22_PreloadedAtStart ==
    [][StartCycle =>
         LET n == Min(tts.config.stream_preload, nsegs[call])
         IN  /\ audio_queue[call] = [i \in 1..n |-> generate_audio(call, i)]
             /\ generated[call] = [i \in 1..n |-> i]
             /\ played[call] = <<>>]_vars

\* A consumer started on a call with more segments than the preload depth,
\* which is at least one.
C22_Witness ==
    /\ Stream
    /\ \E c \in Calls :
         /\ cycle[c] # "unstarted"
         /\ tts.config.stream_preload >= 1
         /\ nsegs[c] > tts.config.stream_preload

\* ---- _smart_split, short texts and termination
\* s is t without the whitespace at its two ends.
Trimmed(t, s) ==
    \E i \in 0..Len(t) : \E j \in i..Len(t) :
        /\ s = SubSeq(t, i + 1, j)
        /\ \A k \in (1..i) \cup ((j + 1)..Len(t)) : t[k] \in Whitespace
        /\ s # <<>> => s[1] \notin Whitespace /\ s[Len(s)] \notin Whitespace

\* C23: a text no longer than max_len (the empty text and a text of exactly
\* max_len characters included) comes back as one segment, the text trimmed.
C23_ShortTextOneSegment ==
    SplitDone /\ Len(sp.text) <= sp.max_len =>
        Len(sp.segments) = 1 /\ Trimmed(sp.text, sp.segments[1])

\* A text of exactly max_len characters with a delimiter in it and whitespace
\* at its start, returned as one trimmed segment.
C23_Witness ==
    /\ SplitDone
    /\ Len(sp.text) = sp.max_len /\ Len(sp.text) >= 2
    /\ sp.text[1] \in Whitespace
    /\ \E i \in 2..Len(sp.text) : sp.text[i] \in tier1_splits \cup tier4_splits
    /\ Len(sp.segments) = 1 /\ sp.segments[1] # sp.text

\* C25: every loop iteration that does not stop the loop takes at least one
\* character off the remaining text, so after k iterations at most
\* len(text) - k characters remain, and the call returns at most len(text) + 1
\* segments.
C25_EachIterationShrinks ==
    /\ Len(sp.content) + Len(sp.tiers) <= Len(sp.text)
    /\ Len(sp.segments) <= Len(sp.text) + 1
    /\ SplitDone => Len(sp.segments) = Len(sp.tiers) + 1

\* A finished call that cut as often as the text is long less one.
C25_Witness ==
    /\ SplitDone
    /\ Len(sp.text) = MaxText
    /\ Len(sp.tiers) >= MaxText - 1

\* ---- the message history
\* The four messages of loop iteration r, in the order start() produces them.
IsSet(e, r) ==
    /\ Len(e) = 4
    /\ e[1].role = "user" /\ e[1].content.kind = "category"
    /\ e[2].role = "assistant" /\ e[2].content.kind = "question"
    /\ e[3].role = "user" /\ e[3].content.kind = "answer"
    /\ e[4].role = "assistant" /\ e[4].content.kind = "response"
    /\ \A i \in 1..4 : e[i].content.round = r

\* C24: what _keep_history evicts is the oldest complete set: the category,
\* question, answer and response of one iteration, older than all that stays.
C24_EvictsOldestSet ==
    hist.evicted # <<>> =>
        \E r \in 1..(MaxRounds + 1) :
            /\ IsSet(hist.evicted, r)
            /\ \A i \in 2..Len(hist.history) : hist.history[i].content.round > r

NonSystem(l) == Cardinality({i \in 1..Len(l) : l[i].role # "system"})

\* C26: with history enabled and history_max_sets >= 1 the history begins
\* with the system message and holds fewer than 4 * history_max_sets other
\* entries after every _keep_history call.
C26_HistoryBounded ==
    hist.use_history /\ hist.max_sets >= 1 =>
        /\ hist.history # <<>> /\ hist.history[1].role = "system"
        /\ NonSystem(hist.history) < 4 * hist.max_sets

\* A history that evicted a set and has since grown back to one entry below
\* its bound.
C26_Witness ==
    /\ hist.use_history /\ hist.max_sets >= 2 /\ ~hist.bypass
    /\ hist.round > hist.max_sets
    /\ NonSystem(hist.history) = 4 * hist.max_sets - 1
====
